---- MODULE Spec2Model ----
(***************************************************************************)
(* EzExtender: deadline-extension decision engine.                         *)
(*   app/rules.py      time rule (auto-approve beyond 48h, deadline_meta)  *)
(*   app/rag.py        tagging, normalisation, retrieval, strong-cue       *)
(*                     override and score aggregation (policy_lookup)      *)
(*   app/precedent.py  precedent recorder (vector index add + counters)    *)
(*   app/main.py       the two handlers, /request and /review              *)
(*                                                                         *)
(* Text is a sequence of one-character strings, so that str.lower,         *)
(* str.strip, `w in s` and str.replace are computed, not assumed.          *)
(* Similarities and distances are in hundredths (58 is 0.58), scores in    *)
(* ten-thousandths, reported confidences in thousandths.                   *)
(***************************************************************************)
EXTENDS Integers, Sequences, FiniteSets, TLC

(***************************************************************************)
(* Text primitives                                                         *)
(***************************************************************************)
UpperChars ==
  <<"A","B","C","D","E","F","G","H","I","J","K","L","M",
    "N","O","P","Q","R","S","T","U","V","W","X","Y","Z">>

LowerChars ==
  <<"a","b","c","d","e","f","g","h","i","j","k","l","m",
    "n","o","p","q","r","s","t","u","v","w","x","y","z">>

LowerChar(c) ==
  IF \E i \in DOMAIN UpperChars : UpperChars[i] = c
    THEN LowerChars[CHOOSE i \in DOMAIN UpperChars : UpperChars[i] = c]
    ELSE c

\* str.lower()
Lower(s) == [i \in DOMAIN s |-> LowerChar(s[i])]

\* str.strip(): drop leading and trailing blanks
RECURSIVE LStrip(_)
LStrip(s) == IF s # <<>> /\ Head(s) = " " THEN LStrip(Tail(s)) ELSE s

RECURSIVE RStrip(_)
RStrip(s) ==
  IF s # <<>> /\ s[Len(s)] = " " THEN RStrip(SubSeq(s, 1, Len(s) - 1)) ELSE s

Strip(s) == RStrip(LStrip(s))

\* `w in s` for strings: w occurs in s as a contiguous substring
Contains(s, w) ==
  \E i \in 1..(Len(s) - Len(w) + 1) : SubSeq(s, i, i + Len(w) - 1) = w

\* any(w in s for w in ws)
AnyIn(s, ws) == \E j \in DOMAIN ws : Contains(s, ws[j])

\* str.replace(old, new): left to right, non-overlapping
RECURSIVE Replace(_, _, _)
Replace(s, old, new) ==
  IF Len(s) < Len(old) THEN s
  ELSE IF SubSeq(s, 1, Len(old)) = old
    THEN new \o Replace(SubSeq(s, Len(old) + 1, Len(s)), old, new)
    ELSE <<Head(s)>> \o Replace(Tail(s), old, new)

(***************************************************************************)
(* Keyword literals                                                        *)
(***************************************************************************)
s_bereavement  == <<"b","e","r","e","a","v","e","m","e","n","t">>
s_passed_away  == <<"p","a","s","s","e","d"," ","a","w","a","y">>
s_funeral      == <<"f","u","n","e","r","a","l">>
s_death        == <<"d","e","a","t","h">>
s_hospital     == <<"h","o","s","p","i","t","a","l">>
s_hospitalized == <<"h","o","s","p","i","t","a","l","i","z","e","d">>
s_surgery      == <<"s","u","r","g","e","r","y">>
s_broken_wrist == <<"b","r","o","k","e","n"," ","w","r","i","s","t">>
s_injury       == <<"i","n","j","u","r","y">>
s_flu          == <<"f","l","u">>
s_cold         == <<"c","o","l","d">>
s_common_cold  == <<"c","o","m","m","o","n"," ","c","o","l","d">>
s_vacation     == <<"v","a","c","a","t","i","o","n">>
s_travel       == <<"t","r","a","v","e","l">>
s_trip         == <<"t","r","i","p">>
s_holiday      == <<"h","o","l","i","d","a","y">>

Tags == {"bereavement", "serious_injury", "minor_illness", "travel", "other"}

(***************************************************************************)
(* Tagging: rag.tag_reason and precedent._infer_tag                        *)
(***************************************************************************)
tag_reason(raw) ==
  LET s == Lower(raw) IN
  IF AnyIn(s, <<s_bereavement, s_passed_away, s_funeral, s_death>>)
    THEN "bereavement"
  ELSE IF AnyIn(s, <<s_hospital, s_hospitalized, s_surgery, s_broken_wrist, s_injury>>)
    THEN "serious_injury"
  ELSE IF AnyIn(s, <<s_flu, s_cold, s_common_cold>>)
    THEN "minor_illness"
  ELSE IF AnyIn(s, <<s_vacation, s_travel, s_trip, s_holiday>>)
    THEN "travel"
  ELSE "other"

infer_tag(reason_text) ==
  LET s == Lower(reason_text) IN
  IF AnyIn(s, <<s_bereavement, s_passed_away, s_funeral, s_death>>)
    THEN "bereavement"
  ELSE IF AnyIn(s, <<s_flu, s_cold, s_common_cold>>)
    THEN "minor_illness"
  ELSE IF AnyIn(s, <<s_hospital, s_injury, s_broken_wrist, s_surgery>>)
    THEN "serious_injury"
  ELSE IF AnyIn(s, <<s_vacation, s_travel, s_trip, s_holiday>>)
    THEN "travel"
  ELSE "other"

(***************************************************************************)
(* Reason texts: up to MaxWords words of a small vocabulary, blank-joined  *)
(***************************************************************************)
MaxWords == 2

w_Funeral  == <<"F","u","n","e","r","a","l">>
w_scolded  == <<"s","c","o","l","d","e","d">>
w_exam     == <<"e","x","a","m">>

Vocabulary == {w_Funeral, s_flu, s_hospitalized, s_trip, w_scolded, w_exam}

RECURSIVE JoinWords(_)
JoinWords(ws) ==
  IF ws = <<>> THEN <<>>
  ELSE IF Len(ws) = 1 THEN ws[1]
  ELSE ws[1] \o <<" ">> \o JoinWords(Tail(ws))

ReasonTexts ==
  UNION { { JoinWords(ws) : ws \in [1..n -> Vocabulary] } : n \in 0..MaxWords }

(***************************************************************************)
(* Review outcomes                                                         *)
(***************************************************************************)
s_allow    == <<"a","l","l","o","w">>
s_deny     == <<"d","e","n","y">>
s_approve  == <<"a","p","p","r","o","v","e">>
s_reject   == <<"r","e","j","e","c","t">>
s_Reject_  == <<"R","e","j","e","c","t"," ">>
s_maybe    == <<"m","a","y","b","e">>

\* values of the `outcome` form field
OutcomeInputs == {s_allow, s_deny, s_approve, s_Reject_, s_maybe}

\* reason texts submitted for review
ReviewReasons == {s_flu, s_trip}

\* mutant: the "reject" synonym is forgotten
NormalizeOutcome_NoReject(o) ==
  LET x == Strip(Lower(o)) IN
  IF x = s_approve THEN s_allow ELSE x

\* main.review_request: outcome.lower().strip(), then the two synonyms
NormalizeOutcome(o) ==
  LET x == Strip(Lower(o)) IN
  IF x = s_approve THEN s_allow
  ELSE IF x = s_reject THEN s_deny
  ELSE x

\* precedent.record_precedent: (outcome or "").lower().strip(), synonyms
RecordOutcome(o) ==
  LET x == Strip(Lower(o)) IN
  IF x = s_approve THEN s_allow
  ELSE IF x = s_reject THEN s_deny
  ELSE x

Outcomes == {"allow", "deny"}

ValidOutcome(o) == o \in {s_allow, s_deny}

\* dict key of a validated outcome
Key(o) == IF o = s_allow THEN "allow" ELSE "deny"

(***************************************************************************)
(* Counter file data/precedent.json: {tag: {"allow": n, "deny": n}}        *)
(* A dict is a function whose domain is the set of its keys.               *)
(***************************************************************************)
EmptyDict == <<>>

ZeroRow == [allow |-> 0, deny |-> 0]

\* counters.get(tag, {"allow": 0, "deny": 0})
Get(d, t) == IF t \in DOMAIN d THEN d[t] ELSE ZeroRow

Put(d, t, row) == [x \in (DOMAIN d) \cup {t} |-> IF x = t THEN row ELSE d[x]]

\* mutant: the counter is set, not incremented
Increment_SetOne(d, t, k) ==
  Put(d, t, [Get(d, t) EXCEPT ![k] = 1])

\* lines 88-90: row[outcome] = int(row.get(outcome, 0)) + 1; counters[tag] = row
Increment(d, t, k) ==
  Put(d, t, [Get(d, t) EXCEPT ![k] = @ + 1])

\* _safe_load_json: {} unless the file exists and parses
safe_load_json(f) == IF f.st = "ok" THEN f.data ELSE EmptyDict

\* a collection as a multiset: every add makes a new entry under a fresh
\* uuid4 id, so entries with equal document and metadata are counted
Count(c, e) == IF e \in DOMAIN c THEN c[e] ELSE 0

AddEntry(c, e) == [x \in (DOMAIN c) \cup {e} |-> IF x = e THEN Count(c, e) + 1 ELSE c[x]]

RECURSIVE Size(_)
Size(c) ==
  IF DOMAIN c = {} THEN 0
  ELSE LET e == CHOOSE x \in DOMAIN c : TRUE IN
       c[e] + Size([x \in (DOMAIN c) \ {e} |-> c[x]])

\* `tag = tag or _infer_tag(reason_text_raw)`; "" stands for None
TagOrInfer(t, raw) == IF t # "" THEN t ELSE infer_tag(raw)

(***************************************************************************)
(* rag.normalize_reason                                                    *)
(***************************************************************************)
s_death_bereavement == <<"d","e","a","t","h"," ","b","e","r","e","a","v","e","m","e","n","t">>
s_grandfather       == <<"g","r","a","n","d","f","a","t","h","e","r">>
s_family_member     == <<"f","a","m","i","l","y"," ","m","e","m","b","e","r">>
s_common_cold_minor_illness ==
  <<"c","o","m","m","o","n"," ","c","o","l","d"," ","m","i","n","o","r"," ","i","l","l","n","e","s","s">>

normalize_reason(x) ==
  Replace(
    Replace(
      Replace(
        Replace(Lower(x), s_passed_away, s_death_bereavement),
        s_funeral, s_death_bereavement),
      s_grandfather, s_family_member),
    s_flu, s_common_cold_minor_illness)

(***************************************************************************)
(* rag._to_policy_hits: distance -> similarity, ranked                     *)
(***************************************************************************)
Min(a, b) == IF a <= b THEN a ELSE b

Max(a, b) == IF a >= b THEN a ELSE b

\* max(0.0, min(1.0, 1.0 - float(dist)))
Similarity(dist) == Max(0, Min(100, 100 - dist))

\* hits.sort(key=similarity, reverse=True): stable, descending
RECURSIVE InsertDesc(_, _)
InsertDesc(sorted, h) ==
  IF sorted = <<>> THEN <<h>>
  ELSE IF Head(sorted).similarity >= h.similarity
    THEN <<Head(sorted)>> \o InsertDesc(Tail(sorted), h)
    ELSE <<h>> \o sorted

RECURSIVE SortDesc(_)
SortDesc(hits) ==
  IF hits = <<>> THEN <<>>
  ELSE InsertDesc(SortDesc(SubSeq(hits, 1, Len(hits) - 1)), hits[Len(hits)])

\* res: what col.query returned, one [document, label, dist] per neighbour;
\* label "" is metadata without a label (None)
to_policy_hits(res) ==
  SortDesc([i \in DOMAIN res |->
     [document |-> res[i].document,
      label |-> res[i].label,
      similarity |-> Similarity(res[i].dist)]])

(***************************************************************************)
(* rag._strong_cue_decision                                                *)
(***************************************************************************)
s_not_sufficient   == <<"n","o","t"," ","s","u","f","f","i","c","i","e","n","t">>
s_not_valid        == <<"n","o","t"," ","v","a","l","i","d">>
s_insufficient     == <<"i","n","s","u","f","f","i","c","i","e","n","t">>
s_not_acceptable   == <<"n","o","t"," ","a","c","c","e","p","t","a","b","l","e">>
s_immediate_family == <<"i","m","m","e","d","i","a","t","e"," ","f","a","m","i","l","y">>
s_serious_injury   == <<"s","e","r","i","o","u","s"," ","i","n","j","u","r","y">>

deny_cues == <<s_not_sufficient, s_not_valid, s_deny, s_insufficient, s_not_acceptable>>

allow_cues ==
  <<s_bereavement, s_death, s_immediate_family, s_hospital, s_serious_injury, s_broken_wrist>>

min_sim == 58

StrongFloor == 65

NoStrong == [recommend |-> "", confidence |-> 0]

strong_deny(policy_hits) ==
  \E i \in DOMAIN policy_hits :
    /\ policy_hits[i].label = "deny"
    /\ policy_hits[i].similarity >= min_sim
    /\ AnyIn(Lower(policy_hits[i].document), deny_cues)

strong_allow(policy_hits) ==
  \E i \in DOMAIN policy_hits :
    /\ policy_hits[i].label = "allow"
    /\ policy_hits[i].similarity >= min_sim
    /\ AnyIn(Lower(policy_hits[i].document), allow_cues)

\* mutant: a strong deny wins even when a strong allow fired too
strong_cue_decision_DenyWins(policy_hits) ==
  IF strong_deny(policy_hits)
    THEN [recommend |-> "deny", confidence |-> Max(min_sim, StrongFloor)]
  ELSE IF strong_allow(policy_hits)
    THEN [recommend |-> "approve", confidence |-> Max(min_sim, StrongFloor)]
  ELSE NoStrong

\* None is NoStrong
strong_cue_decision(policy_hits) ==
  IF strong_deny(policy_hits) /\ ~strong_allow(policy_hits)
    THEN [recommend |-> "deny", confidence |-> Max(min_sim, StrongFloor)]
  ELSE IF strong_allow(policy_hits) /\ ~strong_deny(policy_hits)
    THEN [recommend |-> "approve", confidence |-> Max(min_sim, StrongFloor)]
  ELSE NoStrong

(***************************************************************************)
(* rag.policy_lookup: score aggregation and payload                        *)
(***************************************************************************)
MIN_CONF == 60

PRECEDENT_WEIGHT == 35

\* sum(h["similarity"] for h in hits if h[field] == value)
RECURSIVE SumSim(_, _, _)
SumSim(hits, field, value) ==
  IF hits = <<>> THEN 0
  ELSE (IF Head(hits)[field] = value THEN Head(hits).similarity ELSE 0)
         + SumSim(Tail(hits), field, value)

\* mutant: the precedent hits are left out of the allow score
allow_score_PolicyOnly(policy_hits, precedent_hits) ==
  (100 - PRECEDENT_WEIGHT) * SumSim(policy_hits, "label", "allow")

allow_score(policy_hits, precedent_hits) ==
  (100 - PRECEDENT_WEIGHT) * SumSim(policy_hits, "label", "allow")
    + PRECEDENT_WEIGHT * SumSim(precedent_hits, "outcome", "allow")

deny_score(policy_hits, precedent_hits) ==
  (100 - PRECEDENT_WEIGHT) * SumSim(policy_hits, "label", "deny")
    + PRECEDENT_WEIGHT * SumSim(precedent_hits, "outcome", "deny")

\* mutant: no evidence counts as full confidence
Conf_DefaultOne(a, d) ==
  IF a + d > 0 THEN [n |-> Max(a, d), d |-> a + d] ELSE [n |-> 1, d |-> 1]

\* conf as the fraction n/d: max(allow_score, deny_score) / total, or 0.0
Conf(a, d) ==
  IF a + d > 0 THEN [n |-> Max(a, d), d |-> a + d] ELSE [n |-> 0, d |-> 1]

\* max(conf, strong["confidence"])
RaiseTo(conf, floor) ==
  IF conf.n * 100 >= floor * conf.d THEN conf ELSE [n |-> floor, d |-> 100]

\* step 4; recommend "" is None. total <= 1e-9 is total <= 0 in ten-thousandths
Recommend(strong, conf, a, d) ==
  IF strong # NoStrong THEN strong.recommend
  ELSE IF conf.n * 100 < MIN_CONF * conf.d \/ a + d <= 0 THEN ""
  ELSE IF a >= d THEN "approve" ELSE "deny"

\* round(x, 3) of the fraction n/d, in thousandths (ties to even)
Round3(n, d) ==
  LET q == (1000 * n) \div d
      r == (1000 * n) % d IN
  IF 2 * r < d THEN q
  ELSE IF 2 * r > d THEN q + 1
  ELSE IF q % 2 = 0 THEN q ELSE q + 1

\* rag._load_precedent_stats(tag): data.get(tag, {}) or {}
load_precedent_stats(f, t) ==
  IF f.st = "ok" /\ t \in DOMAIN f.data THEN f.data[t] ELSE EmptyDict

\* stats.get(k, 0)
StatGet(stats, k) == IF stats = EmptyDict THEN 0 ELSE stats[k]

allow_rate(stats) ==
  LET total_cases == StatGet(stats, "allow") + StatGet(stats, "deny") IN
  IF total_cases # 0 THEN Round3(StatGet(stats, "allow"), total_cases) ELSE 0

NoDeadlineMeta ==
  [now_utc |-> 0, deadline_utc |-> 0, hours_to_deadline |-> 0,
   within_48h |-> FALSE, beyond_48h |-> FALSE]

NoPayload ==
  [status |-> 0, decision |-> "", via |-> "", recommend |-> "", confidence |-> 0,
   evidence |-> <<>>, tag |-> "", stats |-> EmptyDict, allow_rate |-> 0,
   deadline_meta |-> NoDeadlineMeta]

\* steps 3-6 of policy_lookup
Payload(policy_hits, precedent_hits, stats, tag) ==
  LET strong == strong_cue_decision(policy_hits)
      a == allow_score(policy_hits, precedent_hits)
      d == deny_score(policy_hits, precedent_hits)
      conf0 == Conf(a, d)
      conf == IF strong # NoStrong THEN RaiseTo(conf0, strong.confidence) ELSE conf0
      recommend == Recommend(strong, conf0, a, d)
  IN [status |-> 200,
      decision |-> IF recommend # "" THEN "recommendation" ELSE "needs_review",
      via |-> IF recommend # "" THEN "policy_rag" ELSE "policy_rag_low_conf",
      recommend |-> recommend,
      confidence |-> Round3(conf.n, conf.d),
      evidence |-> IF policy_hits # <<>>
                     THEN <<[label |-> policy_hits[1].label,
                             similarity |-> 10 * policy_hits[1].similarity,
                             snippet |-> policy_hits[1].document]>>
                     ELSE <<>>,
      tag |-> tag,
      stats |-> stats,
      allow_rate |-> allow_rate(stats),
      deadline_meta |-> NoDeadlineMeta]

(***************************************************************************)
(* rules.py: the time rule. Time is in hours.                              *)
(***************************************************************************)
H48 == 48

\* _parse_iso_z: the string is its suffix form and the instant it denotes;
\* "Z" and "+00:00" are accepted, an empty or otherwise shaped string raises
parse_ok(deadline_iso) == deadline_iso.fmt \in {"Z", "+00:00"}

parse_iso_z(deadline_iso) == deadline_iso.t

\* (dl - now).total_seconds() / 3600.0
hours_to_deadline(deadline_iso, now) == parse_iso_z(deadline_iso) - now

\* mutant: the threshold is one hour late
auto_approve_beyond_48h_Late(deadline_iso, now) ==
  LET h == hours_to_deadline(deadline_iso, now) IN
  [beyond48 |-> h > H48 + 1, hours_left |-> h]

auto_approve_beyond_48h(deadline_iso, now) ==
  LET h == hours_to_deadline(deadline_iso, now) IN
  [beyond48 |-> h > H48, hours_left |-> h]

deadline_meta(deadline_iso, now) ==
  LET h == hours_to_deadline(deadline_iso, now) IN
  [now_utc |-> now,
   deadline_utc |-> parse_iso_z(deadline_iso),
   hours_to_deadline |-> h,
   within_48h |-> (0 <= h /\ h <= H48),
   beyond_48h |-> h > H48]

(***************************************************************************)
(* State of the precedent recorder                                         *)
(***************************************************************************)
NumProcs  == 2
MaxCalls  == 2
MaxFaults == 1

Procs == 1..NumProcs

VARIABLES
  pc,        \* per handler thread: where the /review request stands
  arg,       \* its `outcome` form field, until record_precedent has the case
  m,         \* record_precedent's metadata: outcome, tag, raw
  counters,  \* record_precedent's local `counters` dict
  log,       \* the PrecedentCases collection: metadata -> number of entries
  file,      \* data/precedent.json
  hist,      \* calls that returned normally: metadata -> number of calls
  started,   \* number of /review requests that passed validation
  faults     \* number of storage faults so far

recVars == <<pc, arg, m, counters, log, file, hist, started, faults>>

VARIABLES
  text,       \* the reason text
  lookupTag,  \* policy_lookup's `tag`, "none" before it ran
  recordTag   \* the tag record_precedent stores, "none" before it ran

tagVars == <<text, lookupTag, recordTag>>

VARIABLES
  dpc,             \* where the /request request (or the scoring) stands
  clock,           \* wall-clock UTC
  demo,            \* EZ_DEMO_NOW_UTC: [set, t]
  req,             \* form fields of the request: reason_text, deadline_iso
  dl_meta,         \* submit_request's dl_meta
  rule,            \* submit_request's (beyond48, hours_left)
  res,             \* what the PolicyDoc query returned
  policy_hits,     \* policy_lookup's policy_hits
  precedent_hits,  \* policy_lookup's precedent_hits
  lookups,         \* evidence lookups made so far: <<target, argument>>
  payload          \* the response

decVars ==
  <<dpc, clock, demo, req, dl_meta, rule, res, policy_hits, precedent_hits,
    lookups, payload>>

NoArg == <<>>
NoMeta == [outcome |-> "", tag |-> "", raw |-> <<>>]

InitRec ==
  /\ pc = [p \in Procs |-> "idle"]
  /\ arg = [p \in Procs |-> NoArg]
  /\ m = [p \in Procs |-> NoMeta]
  /\ counters = [p \in Procs |-> EmptyDict]
  /\ log = EmptyDict
  /\ file = [st |-> "missing", data |-> EmptyDict]
  /\ hist = EmptyDict
  /\ started = 0
  /\ faults = 0

\* review_request up to the call of _prec_col.add: validation (400 on a bad
\* outcome), tag_reason, then record_precedent lines 60-77
ReviewBegin(p, reason, outcome) ==
  /\ pc[p] = "idle"
  /\ started < MaxCalls
  /\ arg' = [arg EXCEPT ![p] = outcome]
  /\ LET o == NormalizeOutcome(outcome) IN
     IF ~ValidOutcome(o)
       THEN /\ pc' = [pc EXCEPT ![p] = "rejected"]
            /\ UNCHANGED <<m, started>>
       ELSE LET o2 == RecordOutcome(o)
                t  == TagOrInfer(tag_reason(reason), reason) IN
            IF ~ValidOutcome(o2)
              THEN /\ pc' = [pc EXCEPT ![p] = "failed"]
                   /\ UNCHANGED <<m, started>>
              ELSE /\ pc' = [pc EXCEPT ![p] = "call"]
                   /\ m' = [m EXCEPT ![p] =
                              [outcome |-> Key(o2), tag |-> t, raw |-> reason]]
                   /\ started' = started + 1
  /\ UNCHANGED <<counters, log, file, hist, faults>>
  /\ UNCHANGED <<tagVars, decVars>>

\* _prec_col.add(ids=[uuid4], documents=[raw], metadatas=[m])
Add(p) ==
  /\ pc[p] = "call"
  /\ log' = AddEntry(log, m[p])
  /\ arg' = [arg EXCEPT ![p] = NoArg]
  /\ pc' = [pc EXCEPT ![p] = "added"]
  /\ UNCHANGED <<m, counters, file, hist, started, faults>>
  /\ UNCHANGED <<tagVars, decVars>>

\* the vector index raises: the exception leaves record_precedent
AddFault(p) ==
  /\ pc[p] = "call"
  /\ faults < MaxFaults
  /\ faults' = faults + 1
  /\ pc' = [pc EXCEPT ![p] = "failed"]
  /\ UNCHANGED <<arg, m, counters, log, file, hist, started>>
  /\ UNCHANGED <<tagVars, decVars>>

\* counters = _safe_load_json(PRECEDENT_JSON)
Load(p) ==
  /\ pc[p] = "added"
  /\ counters' = [counters EXCEPT ![p] = safe_load_json(file)]
  /\ pc' = [pc EXCEPT ![p] = "loaded"]
  /\ UNCHANGED <<arg, m, log, file, hist, started, faults>>
  /\ UNCHANGED <<tagVars, decVars>>

\* read_text raises on an existing file: `except Exception: pass`, so {}
LoadFault(p) ==
  /\ pc[p] = "added"
  /\ file.st = "ok"
  /\ faults < MaxFaults
  /\ faults' = faults + 1
  /\ counters' = [counters EXCEPT ![p] = EmptyDict]
  /\ pc' = [pc EXCEPT ![p] = "loaded"]
  /\ UNCHANGED <<arg, m, log, file, hist, started>>
  /\ UNCHANGED <<tagVars, decVars>>

\* lines 88-91 up to write_text's open(mode="w"), which truncates the file
WriteOpen(p) ==
  /\ pc[p] = "loaded"
  /\ counters' = [counters EXCEPT ![p] = Increment(@, m[p].tag, m[p].outcome)]
  /\ file' = [st |-> "empty", data |-> EmptyDict]
  /\ pc' = [pc EXCEPT ![p] = "writing"]
  /\ UNCHANGED <<arg, m, log, hist, started, faults>>
  /\ UNCHANGED <<tagVars, decVars>>

\* write_text writes json.dumps(counters) and closes; the call returns
WriteFlush(p) ==
  /\ pc[p] = "writing"
  /\ file' = [st |-> "ok", data |-> counters[p]]
  /\ hist' = AddEntry(hist, m[p])
  /\ pc' = [pc EXCEPT ![p] = "done"]
  /\ UNCHANGED <<arg, m, counters, log, started, faults>>
  /\ UNCHANGED <<tagVars, decVars>>

\* the open or the write raises: the exception leaves record_precedent
WriteFault(p) ==
  /\ pc[p] \in {"loaded", "writing"}
  /\ faults < MaxFaults
  /\ faults' = faults + 1
  /\ pc' = [pc EXCEPT ![p] = "failed"]
  /\ UNCHANGED <<arg, m, counters, log, file, hist, started>>
  /\ UNCHANGED <<tagVars, decVars>>

\* the response is sent; the thread takes the next request
Return(p) ==
  /\ pc[p] \in {"done", "failed", "rejected"}
  /\ pc' = [pc EXCEPT ![p] = "idle"]
  /\ arg' = [arg EXCEPT ![p] = NoArg]
  /\ m' = [m EXCEPT ![p] = NoMeta]
  /\ counters' = [counters EXCEPT ![p] = EmptyDict]
  /\ UNCHANGED <<log, file, hist, started, faults>>
  /\ UNCHANGED <<tagVars, decVars>>

(***************************************************************************)
(* Tag derivation on one reason text: by policy_lookup for the precedent   *)
(* statistics, and by record_precedent when it is called without a tag     *)
(***************************************************************************)
TagOff ==
  /\ text = <<>>
  /\ lookupTag = "none"
  /\ recordTag = "none"

\* policy_lookup line 144: tag = tag_reason(reason_text)
LookupTag ==
  /\ lookupTag = "none"
  /\ lookupTag' = tag_reason(text)
  /\ UNCHANGED <<text, recordTag>>
  /\ UNCHANGED <<recVars, decVars>>

\* record_precedent(reason_text_raw=text, outcome=..., tag=None), line 66
RecordTag ==
  /\ recordTag = "none"
  /\ recordTag' = TagOrInfer("", text)
  /\ UNCHANGED <<text, lookupTag>>
  /\ UNCHANGED <<recVars, decVars>>

(***************************************************************************)
(* The /request handler (Decide)                                           *)
(***************************************************************************)
MaxTick == 2
MaxPolicyHits == 2
MaxPrecedentHits == 1

d_DENY_flu == <<"D","E","N","Y",":"," ","f","l","u">>

\* contents of the PolicyDoc collection: chunk text with its stored label,
\* at a cosine distance from the query
PolicyDocs == {d_DENY_flu, s_hospital, w_exam}

Labels == {"allow", "deny", ""}

Distances == {10, 42, 43, 120}

PolicyEntries == [document : PolicyDocs, label : Labels, dist : Distances]

SeqsUpTo(S, n) == UNION { [1..k -> S] : k \in 0..n }

PolicyResults == SeqsUpTo(PolicyEntries, MaxPolicyHits)

\* nearest precedent cases, as query_precedent's callers expect them
PrecedentEntries == [outcome : Outcomes, similarity : {90}]

PrecedentResults == SeqsUpTo(PrecedentEntries, MaxPrecedentHits)

\* the names app/precedent.py defines
PrecedentModuleNames ==
  {"CHROMA_DIR", "PRECEDENT_JSON", "PRECEDENT_COLLECTION", "embedding_fn",
   "_client", "_prec_col", "_safe_load_json", "_safe_write_json", "_infer_tag",
   "record_precedent"}

\* rag.py lines 29-37: `from app.precedent import query_precedent` succeeds
\* only if the module defines the name; otherwise the fallback is bound
ImportOK == "query_precedent" \in PrecedentModuleNames

NoReq == [reason |-> <<>>, deadline_iso |-> [fmt |-> "", t |-> 0]]
NoRule == [beyond48 |-> FALSE, hours_left |-> 0]

DecOff ==
  /\ dpc = "off"
  /\ clock = 0
  /\ demo = [set |-> FALSE, t |-> 0]
  /\ req = NoReq
  /\ dl_meta = NoDeadlineMeta
  /\ rule = NoRule
  /\ res = <<>>
  /\ policy_hits = <<>>
  /\ precedent_hits = <<>>
  /\ lookups = {}
  /\ payload = NoPayload

\* requests of the /request form
DecideReasons == {s_flu, w_Funeral \o <<" ">> \o s_trip}

DeadlineTimes == {0, H48, H48 + 1, H48 + 2}

Deadlines ==
  {[fmt |-> "", t |-> 0], [fmt |-> "bad", t |-> 0]}
    \cup [fmt : {"Z", "+00:00"}, t : DeadlineTimes]

\* results of the PolicyDoc query used for whole requests
DecideEntries ==
  {[document |-> d_DENY_flu, label |-> "deny", dist |-> 10],
   [document |-> d_DENY_flu, label |-> "deny", dist |-> 43],
   [document |-> s_hospital, label |-> "allow", dist |-> 10],
   [document |-> w_exam, label |-> "", dist |-> 43]}

DecideResults == SeqsUpTo(DecideEntries, MaxPolicyHits)

\* counter files the recorder leaves behind
CounterFiles ==
  {[st |-> "missing", data |-> EmptyDict],
   [st |-> "ok", data |-> Increment(EmptyDict, "minor_illness", "deny")]}

InitDecide ==
  /\ pc = [p \in Procs |-> "idle"]
  /\ arg = [p \in Procs |-> NoArg]
  /\ m = [p \in Procs |-> NoMeta]
  /\ counters = [p \in Procs |-> EmptyDict]
  /\ log = EmptyDict
  /\ file \in CounterFiles
  /\ hist = EmptyDict
  /\ started = 0
  /\ faults = 0
  /\ TagOff
  /\ dpc = "idle"
  /\ clock = 0
  /\ demo \in {[set |-> FALSE, t |-> 0], [set |-> TRUE, t |-> 0]}
  /\ req = NoReq
  /\ dl_meta = NoDeadlineMeta
  /\ rule = NoRule
  /\ res = <<>>
  /\ policy_hits = <<>>
  /\ precedent_hits = <<>>
  /\ lookups = {}
  /\ payload = NoPayload

\* rules.now_utc
now_utc == IF demo.set THEN demo.t ELSE clock

\* the wall clock advances while a request is being handled
Tick ==
  /\ dpc \in {"start", "meta", "lookup", "policy", "precedent"}
  /\ clock < MaxTick
  /\ clock' = clock + 1
  /\ UNCHANGED <<dpc, demo, req, dl_meta, rule, res, policy_hits, precedent_hits,
                 lookups, payload>>
  /\ UNCHANGED <<recVars, tagVars>>

\* POST /request arrives
DecideBegin(reason, deadline_iso) ==
  /\ dpc = "idle"
  /\ req' = [reason |-> reason, deadline_iso |-> deadline_iso]
  /\ dpc' = "start"
  /\ UNCHANGED <<clock, demo, dl_meta, rule, res, policy_hits, precedent_hits,
                 lookups, payload>>
  /\ UNCHANGED <<recVars, tagVars>>

\* main.py line 35: dl_meta = deadline_meta(deadline_iso); ValueError -> 400
DecideMeta ==
  /\ dpc = "start"
  /\ IF parse_ok(req.deadline_iso)
       THEN /\ dl_meta' = deadline_meta(req.deadline_iso, now_utc)
            /\ dpc' = "meta"
            /\ UNCHANGED payload
       ELSE /\ payload' = [NoPayload EXCEPT !.status = 400,
                                            !.decision = "invalid_deadline_iso"]
            /\ dpc' = "done"
            /\ UNCHANGED dl_meta
  /\ UNCHANGED <<clock, demo, req, rule, res, policy_hits, precedent_hits, lookups>>
  /\ UNCHANGED <<recVars, tagVars>>

\* main.py lines 36-50: auto_approve_beyond_48h reads the clock again
DecideRule ==
  /\ dpc = "meta"
  /\ rule' = auto_approve_beyond_48h(req.deadline_iso, now_utc)
  /\ IF rule'.beyond48
       THEN /\ payload' = [NoPayload EXCEPT !.status = 200,
                                            !.decision = "approve",
                                            !.via = "rule_beyond_48h",
                                            !.confidence = 1000,
                                            !.deadline_meta = dl_meta]
            /\ dpc' = "done"
       ELSE /\ dpc' = "lookup"
            /\ UNCHANGED payload
  /\ UNCHANGED <<clock, demo, req, dl_meta, res, policy_hits, precedent_hits, lookups>>
  /\ UNCHANGED <<recVars, tagVars>>

\* policy_lookup lines 144-151: the PolicyDoc query with the normalized reason
DecidePolicy(r) ==
  /\ dpc = "lookup"
  /\ res' = r
  /\ policy_hits' = to_policy_hits(r)
  /\ lookups' = lookups \cup {<<"PolicyDoc", normalize_reason(req.reason)>>}
  /\ dpc' = "policy"
  /\ UNCHANGED <<clock, demo, req, dl_meta, rule, precedent_hits, payload>>
  /\ UNCHANGED <<recVars, tagVars>>

\* _to_policy_hits line 86: col.query raises (the index cannot be read at call
\* time). Nothing between it and the handler catches: _to_policy_hits and
\* policy_lookup have no try, submit_request's try (main.py 34-41) ended before
\* line 52. The request ends as an unhandled exception, a 500 with no payload.
DecidePolicyFault ==
  /\ dpc = "lookup"
  /\ lookups' = lookups \cup {<<"PolicyDoc", normalize_reason(req.reason)>>}
  /\ payload' = [NoPayload EXCEPT !.status = 500, !.decision = "unhandled_exception"]
  /\ dpc' = "done"
  /\ UNCHANGED <<clock, demo, req, dl_meta, rule, res, policy_hits, precedent_hits>>
  /\ UNCHANGED <<recVars, tagVars>>

\* policy_lookup line 154: _precedent_query(q, k=5), whichever was bound at import
DecidePrecedent ==
  /\ dpc = "policy"
  /\ \E hits \in (IF ImportOK THEN PrecedentResults ELSE {<<>>}) :
       precedent_hits' = hits
  /\ lookups' = IF ImportOK
                  THEN lookups \cup {<<"PrecedentCases", normalize_reason(req.reason)>>}
                  ELSE lookups
  /\ dpc' = "precedent"
  /\ UNCHANGED <<clock, demo, req, dl_meta, rule, res, policy_hits, payload>>
  /\ UNCHANGED <<recVars, tagVars>>

\* policy_lookup lines 156-214 and main.py lines 53-54
DecideRespond ==
  /\ dpc = "precedent"
  /\ LET tag == tag_reason(req.reason) IN
     /\ lookups' = lookups \cup {<<"precedent.json", tag>>}
     /\ payload' = [Payload(policy_hits, precedent_hits,
                            load_precedent_stats(file, tag), tag)
                      EXCEPT !.deadline_meta = dl_meta]
  /\ dpc' = "done"
  /\ UNCHANGED <<clock, demo, req, dl_meta, rule, res, policy_hits, precedent_hits>>
  /\ UNCHANGED <<recVars, tagVars>>

NextDecide ==
  \/ \E reason \in DecideReasons, d \in Deadlines : DecideBegin(reason, d)
  \/ DecideMeta
  \/ DecideRule
  \/ \E r \in DecideResults : DecidePolicy(r)
  \/ DecidePolicyFault
  \/ DecidePrecedent
  \/ DecideRespond
  \/ Tick

vars == <<recVars, tagVars, decVars>>

SpecDecide == InitDecide /\ [][NextDecide]_vars

(***************************************************************************)
(* Scoring on its own: steps 3-6 of policy_lookup applied to every ranked  *)
(* list of policy hits and every list of precedent hits                    *)
(***************************************************************************)
InitBlend ==
  /\ InitRec
  /\ TagOff
  /\ dpc = "raw"
  /\ clock = 0
  /\ demo = [set |-> FALSE, t |-> 0]
  /\ req = NoReq
  /\ dl_meta = NoDeadlineMeta
  /\ rule = NoRule
  /\ res \in PolicyResults
  /\ policy_hits = <<>>
  /\ precedent_hits \in PrecedentResults
  /\ lookups = {}
  /\ payload = NoPayload

\* _to_policy_hits on the query result
BlendHits ==
  /\ dpc = "raw"
  /\ policy_hits' = to_policy_hits(res)
  /\ dpc' = "hits"
  /\ UNCHANGED <<clock, demo, req, dl_meta, rule, res, precedent_hits, lookups, payload>>
  /\ UNCHANGED <<recVars, tagVars>>

\* policy_lookup lines 151-214 on the two hit lists
BlendScore ==
  /\ dpc = "hits"
  /\ payload' = Payload(policy_hits, precedent_hits,
                        load_precedent_stats(file, "other"), "other")
  /\ dpc' = "scored"
  /\ UNCHANGED <<clock, demo, req, dl_meta, rule, res, policy_hits, precedent_hits, lookups>>
  /\ UNCHANGED <<recVars, tagVars>>

NextBlend == BlendHits \/ BlendScore

SpecBlend == InitBlend /\ [][NextBlend]_vars

Next ==
  \E p \in Procs :
    \/ \E r \in ReviewReasons, o \in OutcomeInputs : ReviewBegin(p, r, o)
    \/ Add(p)
    \/ AddFault(p)
    \/ Load(p)
    \/ LoadFault(p)
    \/ WriteOpen(p)
    \/ WriteFlush(p)
    \/ WriteFault(p)
    \/ Return(p)

Init == InitRec /\ TagOff /\ DecOff

Spec == Init /\ [][Next]_vars

\* one request at a time, and a storage that does not fail
NextSeq ==
  \E p \in Procs :
    \/ /\ \A q \in Procs : pc[q] = "idle"
       /\ \E r \in ReviewReasons, o \in OutcomeInputs : ReviewBegin(p, r, o)
    \/ Add(p)
    \/ Load(p)
    \/ WriteOpen(p)
    \/ WriteFlush(p)
    \/ Return(p)

SpecSeq == Init /\ [][NextSeq]_vars

InitTag ==
  /\ InitRec
  /\ DecOff
  /\ text \in ReasonTexts
  /\ lookupTag = "none"
  /\ recordTag = "none"

NextTag == LookupTag \/ RecordTag

SpecTag == InitTag /\ [][NextTag]_vars

(***************************************************************************)
(* Observables of the recorder                                             *)
(***************************************************************************)
\* no /review request is in progress
AllQuiet == \A p \in Procs : pc[p] \in {"idle", "done", "failed", "rejected"}

\* counters[T][O] as a reader of data/precedent.json sees it
Counter(t, o) == Get(safe_load_json(file), t)[o]

\* number of entries of collection c whose metadata has tag t and outcome o
RECURSIVE CountTagged(_, _, _)
CountTagged(c, t, o) ==
  IF DOMAIN c = {} THEN 0
  ELSE LET e == CHOOSE x \in DOMAIN c : TRUE IN
       (IF e.tag = t /\ e.outcome = o THEN c[e] ELSE 0)
         + CountTagged([x \in (DOMAIN c) \ {e} |-> c[x]], t, o)

(***************************************************************************)
(* C1: K concurrent record_precedent calls with the same tag and outcome,  *)
(* none of them hit by a storage fault: once all K have returned, the      *)
(* counter of that tag and outcome is K (it started at 0).                 *)
(***************************************************************************)
C1_NoLostUpdate ==
  \A t \in Tags, o \in Outcomes :
    (AllQuiet /\ faults = 0 /\ started > 0 /\ CountTagged(hist, t, o) = started)
      => Counter(t, o) = started

(***************************************************************************)
(* C2: whenever no record_precedent call is in progress, every counter     *)
(* equals the number of PrecedentCases entries with that tag and outcome.  *)
(***************************************************************************)
C2_CountersMatchLog ==
  AllQuiet =>
    \A t \in Tags, o \in Outcomes : Counter(t, o) = CountTagged(log, t, o)

(***************************************************************************)
(* C3: requests handled one at a time on a storage that does not fail:     *)
(* between requests the log holds exactly one entry per successful call    *)
(* (identical submissions included, each counted), and every counter       *)
(* equals the number of successful calls with that tag and outcome, so N   *)
(* calls for (T, allow) raise counters[T].allow by N and nothing else.     *)
(***************************************************************************)
C3_SequentialCounts ==
  AllQuiet =>
    /\ log = hist
    /\ Size(log) = started
    /\ \A t \in Tags, o \in Outcomes : Counter(t, o) = CountTagged(hist, t, o)

\* two identical allow submissions have both been recorded
C3_Witness ==
  /\ AllQuiet
  /\ \E e \in DOMAIN hist : e.outcome = "allow" /\ hist[e] = 2 /\ Counter(e.tag, "allow") = 2

(***************************************************************************)
(* C6: a /review request whose outcome is "approve" or "allow" (up to case *)
(* and surrounding blanks) is recorded as allow, "reject" or "deny" as     *)
(* deny, and that is the entry added and the counter incremented; any      *)
(* other outcome is rejected and the request changes neither the log nor   *)
(* the counter file.                                                       *)
(***************************************************************************)
C6_OutcomeSynonyms ==
  [][\A p \in Procs :
       /\ (pc[p] = "idle" /\ pc'[p] # "idle") =>
            LET x == Strip(Lower(arg'[p])) IN
            /\ x \in {s_approve, s_allow} => (pc'[p] = "call" /\ m'[p].outcome = "allow")
            /\ x \in {s_reject, s_deny} => (pc'[p] = "call" /\ m'[p].outcome = "deny")
            /\ x \notin {s_approve, s_allow, s_reject, s_deny} =>
                 (pc'[p] = "rejected" /\ log' = log /\ file' = file)
       /\ pc[p] = "rejected" => pc'[p] \in {"rejected", "idle"}
       /\ (pc[p] = "call" /\ pc'[p] = "added") =>
            Count(log', m[p]) = Count(log, m[p]) + 1
       /\ (pc[p] = "loaded" /\ pc'[p] = "writing") =>
            Get(counters'[p], m[p].tag)[m[p].outcome]
              = Get(counters[p], m[p].tag)[m[p].outcome] + 1
    ]_vars

\* with a case on record, one request was rejected and left log and counters
\* alone, and one submitted as "approve" is being recorded as allow
C6_Witness ==
  \E p, q \in Procs :
    /\ pc[p] = "rejected" /\ arg[p] = s_maybe
    /\ pc[q] = "call" /\ arg[q] = s_approve /\ m[q].outcome = "allow"
    /\ Size(log) = 1 /\ file.st = "ok"

(***************************************************************************)
(* C10: every place that derives a tag from a reason text returns the      *)
(* first tag, in the order bereavement, serious_injury, minor_illness,     *)
(* travel, whose keyword list has a case-insensitive substring match, and  *)
(* other when none has; so the lookup and the recorder agree on the tag.   *)
(***************************************************************************)
PriorityTable ==
  << [tag |-> "bereavement",
      words |-> <<s_bereavement, s_passed_away, s_funeral, s_death>>],
     [tag |-> "serious_injury",
      words |-> <<s_hospital, s_hospitalized, s_surgery, s_broken_wrist, s_injury>>],
     [tag |-> "minor_illness",
      words |-> <<s_flu, s_cold, s_common_cold>>],
     [tag |-> "travel",
      words |-> <<s_vacation, s_travel, s_trip, s_holiday>>] >>

FirstMatch(s) ==
  LET hit == {i \in DOMAIN PriorityTable : AnyIn(Lower(s), PriorityTable[i].words)} IN
  IF hit = {} THEN "other"
  ELSE PriorityTable[CHOOSE i \in hit : \A j \in hit : i <= j].tag

C10_OnePriorityOrder ==
  /\ lookupTag # "none" => lookupTag = FirstMatch(text)
  /\ recordTag # "none" => recordTag = FirstMatch(text)
  /\ (lookupTag # "none" /\ recordTag # "none") => lookupTag = recordTag

(***************************************************************************)
(* C4: a /request with a well-formed deadline for which the rule computes  *)
(* hours_left > 48 is answered with recommend=approve, confidence 1.0,     *)
(* via=rule_beyond_48h, after no evidence lookup at all.                   *)
(***************************************************************************)
RuleFired == dpc = "done" /\ parse_ok(req.deadline_iso) /\ rule.hours_left > 48

C4_AutoApprove ==
  RuleFired =>
    /\ payload.recommend = "approve"
    /\ payload.confidence = 1000
    /\ payload.via = "rule_beyond_48h"
    /\ lookups = {}

\* C4 as the code has it: the approval is the response's `decision`; the
\* response of this path has no `recommend` field
C4_AutoApproveDecision ==
  RuleFired =>
    /\ payload.status = 200
    /\ payload.decision = "approve"
    /\ payload.recommend = ""
    /\ payload.confidence = 1000
    /\ payload.via = "rule_beyond_48h"
    /\ lookups = {}

\* a deadline 49 hours away, in the "+00:00" form, was auto-approved
C4_Witness ==
  /\ RuleFired
  /\ rule.hours_left = 49
  /\ req.deadline_iso.fmt = "+00:00"
  /\ payload.via = "rule_beyond_48h"

(***************************************************************************)
(* C5: a /request with a well-formed deadline for which the rule computes  *)
(* hours_left <= 48 has, when it is answered, queried both the PolicyDoc   *)
(* and the PrecedentCases collection with the normalized reason.           *)
(***************************************************************************)
C5_BothRetrievals ==
  (dpc = "done" /\ parse_ok(req.deadline_iso) /\ rule.hours_left <= 48) =>
    /\ <<"PolicyDoc", normalize_reason(req.reason)>> \in lookups
    /\ <<"PrecedentCases", normalize_reason(req.reason)>> \in lookups

(***************************************************************************)
(* The scores of section 4.6, from the two hit lists, with w = 0.35        *)
(***************************************************************************)
SpecAllowScore ==
  65 * SumSim(policy_hits, "label", "allow") + 35 * SumSim(precedent_hits, "outcome", "allow")

SpecDenyScore ==
  65 * SumSim(policy_hits, "label", "deny") + 35 * SumSim(precedent_hits, "outcome", "deny")

SpecTotal == SpecAllowScore + SpecDenyScore

\* confidence < 0.60, or total is 0
SpecUndecided ==
  \/ SpecTotal = 0
  \/ 100 * Max(SpecAllowScore, SpecDenyScore) < 60 * SpecTotal

SpecAggregate ==
  IF SpecUndecided THEN ""
  ELSE IF SpecAllowScore >= SpecDenyScore THEN "approve" ELSE "deny"

HasCue(h, cues) == \E j \in DOMAIN cues : Contains(Lower(h.document), cues[j])

SpecStrongDeny ==
  \E i \in DOMAIN policy_hits :
    policy_hits[i].similarity >= 58 /\ policy_hits[i].label = "deny"
      /\ HasCue(policy_hits[i], deny_cues)

SpecStrongAllow ==
  \E i \in DOMAIN policy_hits :
    policy_hits[i].similarity >= 58 /\ policy_hits[i].label = "allow"
      /\ HasCue(policy_hits[i], allow_cues)

(***************************************************************************)
(* C7: when exactly one of strong_deny and strong_allow is set the         *)
(* recommendation is deny (resp. approve) with confidence >= 0.65,         *)
(* whatever the scores; when both or neither is set the recommendation is  *)
(* the one of the aggregate scoring.                                       *)
(***************************************************************************)
C7_StrongCueOverride ==
  dpc = "scored" =>
    /\ (SpecStrongDeny /\ ~SpecStrongAllow) =>
         (payload.recommend = "deny" /\ payload.confidence >= 650)
    /\ (SpecStrongAllow /\ ~SpecStrongDeny) =>
         (payload.recommend = "approve" /\ payload.confidence >= 650)
    /\ (SpecStrongDeny <=> SpecStrongAllow) => payload.recommend = SpecAggregate

\* a strong deny overrode scores that favour allow
C7_Witness ==
  /\ dpc = "scored"
  /\ SpecStrongDeny /\ ~SpecStrongAllow
  /\ SpecAllowScore > SpecDenyScore
  /\ payload.recommend = "deny"

(***************************************************************************)
(* C8: the reported confidence is in [0, 1]; when the total score is 0 the *)
(* confidence is 0, the recommendation null, the decision needs_review.    *)
(***************************************************************************)
C8_ConfidenceRange ==
  dpc = "scored" =>
    /\ 0 <= payload.confidence /\ payload.confidence <= 1000
    /\ SpecTotal = 0 =>
         /\ payload.confidence = 0
         /\ payload.recommend = ""
         /\ payload.decision = "needs_review"

\* hits were returned, but none of them carries a score
C8_Witness ==
  /\ dpc = "scored"
  /\ policy_hits # <<>>
  /\ SpecTotal = 0
  /\ payload.decision = "needs_review"

(***************************************************************************)
(* C9: when the strong-cue override did not fire: confidence < 0.60 or a   *)
(* total of 0 gives a null recommendation and needs_review; otherwise the  *)
(* recommendation is approve if allow_score >= deny_score, else deny.      *)
(***************************************************************************)
C9_AggregateDecision ==
  (dpc = "scored" /\ (SpecStrongDeny <=> SpecStrongAllow)) =>
    IF SpecUndecided
      THEN payload.recommend = "" /\ payload.decision = "needs_review"
      ELSE /\ payload.decision = "recommendation"
           /\ payload.recommend =
                (IF SpecAllowScore >= SpecDenyScore THEN "approve" ELSE "deny")

\* policy evidence on both sides and a precedent hit, decided as deny
C9_Witness ==
  /\ dpc = "scored"
  /\ (SpecStrongDeny <=> SpecStrongAllow)
  /\ SumSim(policy_hits, "label", "allow") > 0
  /\ SumSim(precedent_hits, "outcome", "deny") > 0
  /\ payload.recommend = "deny"

(***************************************************************************)
(* C11: retrieval never fails the request. A /request that went to the     *)
(* evidence engine (well-formed deadline, rule not fired, PolicyDoc         *)
(* queried) is answered with a 200 payload whether the collection is empty *)
(* or the index cannot be read; and a source that gave no hits adds 0 to   *)
(* both scores, so that with no hits at all the answer is needs_review     *)
(* with confidence 0 and no evidence.                                      *)
(***************************************************************************)
WentToRetrieval ==
  /\ dpc = "done"
  /\ parse_ok(req.deadline_iso)
  /\ <<"PolicyDoc", normalize_reason(req.reason)>> \in lookups

C11_RetrievalNeverFails ==
  WentToRetrieval =>
    /\ payload.status = 200
    /\ policy_hits = <<>> =>
          /\ allow_score(policy_hits, precedent_hits) = 35 * SumSim(precedent_hits, "outcome", "allow")
          /\ deny_score(policy_hits, precedent_hits) = 35 * SumSim(precedent_hits, "outcome", "deny")
          /\ payload.evidence = <<>>
    /\ (policy_hits = <<>> /\ precedent_hits = <<>>) =>
          /\ payload.decision = "needs_review"
          /\ payload.confidence = 0

(***************************************************************************)
(* C12: in every 200 response of /request, deadline_meta.beyond_48h is     *)
(* true exactly when the response came from the time rule                  *)
(* (via = rule_beyond_48h), whatever the clock did between the handler's   *)
(* two reads of it.                                                        *)
(***************************************************************************)
C12_MetaAgreesWithPath ==
  (dpc = "done" /\ payload.status = 200) =>
    (payload.deadline_meta.beyond_48h <=> payload.via = "rule_beyond_48h")

====
